---- MODULE Spec2Model ----
(***************************************************************************)
(* A model of generate.py: the Game of Life board generator.               *)
(*                                                                         *)
(* One run of main() is a straight line of steps: the argument-count       *)
(* check (line 22), the unpacking of sys.argv[1:] into rows and cols       *)
(* (line 26), the call of np.random.choice (line 29), the two joins        *)
(* (line 31), open(file_path, 'w') (line 33) and file.write followed by    *)
(* the close of the with block (line 34).                                  *)
(*                                                                         *)
(* Python values are tagged: main() never converts the elements of         *)
(* sys.argv, so whether a dimension is a str or an int decides what        *)
(* np.random.choice does with it.  A str is a sequence of one-character    *)
(* strings.  The command line only ever supplies strs; a Python caller of  *)
(* main() can put ints in sys.argv (the module docstring declares rows     *)
(* and cols as int).                                                       *)
(*                                                                         *)
(* Not modelled: the probabilities p=[0.05, 0.95] (the choice of each cell *)
(* is nondeterministic), and I/O failures of open and write.               *)
(***************************************************************************)
EXTENDS Integers, Sequences, FiniteSets

VARIABLES
    argv,         \* sys.argv: program name followed by the arguments
    pc,           \* the line main() is about to execute, or "done"
    rows,         \* local rows (line 26)
    cols,         \* local cols (line 26)
    grid,         \* local grid (line 29): a sequence of rows of characters
    grid_str,     \* local grid_str (line 31)
    file,         \* ./life.txt on disk: [exists, data]
    file_before,  \* ./life.txt as it was when the run started
    opened,       \* whether open(file_path, 'w') has been executed
    stdout,       \* the lines printed so far
    raised,       \* the exception that ended the run, "" if none
    exit_status   \* the process's exit status, -1 while it runs

vars == <<argv, pc, rows, cols, grid, grid_str, file, file_before, opened,
          stdout, raised, exit_status>>

----------------------------------------------------------------------------
(* Bounds of the model. *)

\* Dimensions range over 1..MaxDim.
MaxDim == 2

\* At most MaxArgs arguments follow the program name.
MaxArgs == 4

\* The longest content life.txt holds before the run.
MaxOldLen == 6

(* Program constant: the limit of len(sys.argv) > 4. *)
UsageLimit == 4

----------------------------------------------------------------------------
(* Python values. *)

PyStr(s) == [t |-> "str", s |-> s, n |-> 0]
PyInt(n) == [t |-> "int", s |-> <<>>, n |-> n]
Unbound == [t |-> "unbound", s |-> <<>>, n |-> 0]

Digits == <<"0", "1", "2", "3", "4", "5", "6", "7", "8", "9">>

\* The decimal string of a natural number.
RECURSIVE ToDecimal(_)
ToDecimal(n) ==
    IF n < 10 THEN <<Digits[n + 1]>>
    ELSE ToDecimal(n \div 10) \o <<Digits[(n % 10) + 1]>>

\* Arguments as a command line supplies them: valid dimensions, and the
\* three kinds of invalid ones (zero, negative, non-numeric).
StrArgs ==
    {PyStr(ToDecimal(n)) : n \in 1..MaxDim}
        \cup {PyStr(<<"0">>), PyStr(<<"-", "1">>), PyStr(<<"x">>)}

\* Arguments as a Python caller of main() may supply them.
IntArgs == {PyInt(n) : n \in 1..MaxDim}

ArgValues == StrArgs \cup IntArgs

ProgName == PyStr(<<"g">>)

ArgLists == UNION {[1..k -> ArgValues] : k \in 0..MaxArgs}

\* What life.txt may hold before the run: nothing (absent), or a text of
\* '#' characters, which no grid contains.
Absent == [exists |-> FALSE, data |-> <<>>]
Present(data) == [exists |-> TRUE, data |-> data]
OldFiles ==
    {Absent} \cup {Present([i \in 1..k |-> "#"]) : k \in {0, 1, MaxOldLen}}

UsageLine == "Usage: ./generate [ROWS] [COLUMNS]"

----------------------------------------------------------------------------
(* The state when main() is entered. *)

Init ==
    /\ argv \in {<<ProgName>> \o a : a \in ArgLists}
    /\ file_before \in OldFiles
    /\ file = file_before
    /\ pc = "check"
    /\ rows = Unbound
    /\ cols = Unbound
    /\ grid = <<>>
    /\ grid_str = <<>>
    /\ opened = FALSE
    /\ stdout = <<>>
    /\ raised = ""
    /\ exit_status = -1

\* An uncaught exception: the interpreter prints a traceback and exits 1.
Raise(exc) ==
    /\ raised' = exc
    /\ exit_status' = 1
    /\ pc' = "done"

----------------------------------------------------------------------------
(* Line 22-24: the argument-count check.  exit(1) raises SystemExit(1). *)

CheckArgs ==
    /\ pc = "check"
    /\ IF Len(argv) > UsageLimit
       THEN /\ stdout' = Append(stdout, UsageLine)
            /\ raised' = "SystemExit"
            /\ exit_status' = 1
            /\ pc' = "done"
       ELSE /\ pc' = "unpack"
            /\ UNCHANGED <<stdout, raised, exit_status>>
    /\ UNCHANGED <<argv, rows, cols, grid, grid_str, file, file_before, opened>>

(* Line 26-27: rows, cols = sys.argv[1:].  Unpacking a list whose length  *)
(* is not two raises ValueError; the values are bound as they are.        *)

\* A variant that keeps the first two values and ignores the rest
\* (rows, cols = sys.argv[1:3]).
UnpackIgnoreExtra ==
    /\ pc = "unpack"
    /\ LET args == Tail(argv) IN
       IF Len(args) >= 2
       THEN /\ rows' = args[1]
            /\ cols' = args[2]
            /\ pc' = "generate"
            /\ UNCHANGED <<raised, exit_status>>
       ELSE /\ Raise("ValueError")
            /\ UNCHANGED <<rows, cols>>
    /\ UNCHANGED <<argv, grid, grid_str, file, file_before, opened, stdout>>

\* A variant that fills missing dimensions with a default of 1.
UnpackDefaults ==
    /\ pc = "unpack"
    /\ LET args == Tail(argv) IN
       IF Len(args) <= 2
       THEN /\ rows' = IF Len(args) >= 1 THEN args[1] ELSE PyInt(1)
            /\ cols' = IF Len(args) >= 2 THEN args[2] ELSE PyInt(1)
            /\ pc' = "generate"
            /\ UNCHANGED <<raised, exit_status>>
       ELSE /\ Raise("ValueError")
            /\ UNCHANGED <<rows, cols>>
    /\ UNCHANGED <<argv, grid, grid_str, file, file_before, opened, stdout>>

\* A variant that opens the output file as soon as file_path is set.
UnpackOpensFirst ==
    /\ pc = "unpack"
    /\ LET args == Tail(argv) IN
       IF Len(args) = 2
       THEN /\ rows' = args[1]
            /\ cols' = args[2]
            /\ pc' = "generate"
            /\ UNCHANGED <<raised, exit_status>>
       ELSE /\ Raise("ValueError")
            /\ UNCHANGED <<rows, cols>>
    /\ file' = Present(<<>>)
    /\ opened' = TRUE
    /\ UNCHANGED <<argv, grid, grid_str, file_before, stdout>>

Unpack ==
    /\ pc = "unpack"
    /\ LET args == Tail(argv) IN
       IF Len(args) = 2
       THEN /\ rows' = args[1]
            /\ cols' = args[2]
            /\ pc' = "generate"
            /\ UNCHANGED <<raised, exit_status>>
       ELSE /\ Raise("ValueError")
            /\ UNCHANGED <<rows, cols>>
    /\ UNCHANGED <<argv, grid, grid_str, file, file_before, opened, stdout>>

(* Line 29: np.random.choice(['*', ' '], size=(rows, cols), p=...).  The  *)
(* size must be a tuple of ints: a str raises TypeError, a negative int   *)
(* ValueError.  Otherwise every cell is drawn from the two characters.    *)

Cells == {"*", " "}

SizeError(v) ==
    IF v.t # "int" THEN "TypeError"
    ELSE IF v.n < 0 THEN "ValueError"
    ELSE ""

Grids(r, c) == [1..r -> [1..c -> Cells]]

\* A variant that swallows the exception and goes on with an empty grid.
GenerateSwallow ==
    /\ pc = "generate"
    /\ IF SizeError(rows) = "" /\ SizeError(cols) = ""
       THEN grid' \in Grids(rows.n, cols.n)
       ELSE grid' = <<>>
    /\ pc' = "join"
    /\ UNCHANGED <<raised, exit_status>>
    /\ UNCHANGED <<argv, rows, cols, grid_str, file, file_before, opened, stdout>>

Generate ==
    /\ pc = "generate"
    /\ IF SizeError(rows) = "" /\ SizeError(cols) = ""
       THEN /\ grid' \in Grids(rows.n, cols.n)
            /\ pc' = "join"
            /\ UNCHANGED <<raised, exit_status>>
       ELSE /\ Raise(IF SizeError(rows) # "" THEN SizeError(rows)
                     ELSE SizeError(cols))
            /\ UNCHANGED grid
    /\ UNCHANGED <<argv, rows, cols, grid_str, file, file_before, opened, stdout>>

(* Line 31: '\n'.join(''.join(row) for row in grid). *)

\* str.join: the parts with sep between each two consecutive ones.
RECURSIVE StrJoin(_, _)
StrJoin(sep, parts) ==
    IF parts = <<>> THEN <<>>
    ELSE IF Len(parts) = 1 THEN parts[1]
    ELSE parts[1] \o sep \o StrJoin(sep, Tail(parts))

\* ''.join(row): the row's one-character strings, concatenated.
RowStr(row) == StrJoin(<<>>, [i \in 1..Len(row) |-> <<row[i]>>])

\* A variant that ends every row, the last one too, with a newline.
JoinRowsTrailing(g) ==
    StrJoin(<<>>, [r \in 1..Len(g) |-> RowStr(g[r]) \o <<"\n">>])

JoinRows(g) == StrJoin(<<"\n">>, [r \in 1..Len(g) |-> RowStr(g[r])])

Join ==
    /\ pc = "join"
    /\ grid_str' = JoinRows(grid)
    /\ pc' = "open"
    /\ UNCHANGED <<argv, rows, cols, grid, file, file_before, opened, stdout,
                   raised, exit_status>>

(* Line 33: open(file_path, 'w') creates the file or truncates it. *)

\* A variant that opens in append mode: the content is kept.
OpenAppend ==
    /\ pc = "open"
    /\ file' = Present(file.data)
    /\ opened' = TRUE
    /\ pc' = "write"
    /\ UNCHANGED <<argv, rows, cols, grid, grid_str, file_before, stdout,
                   raised, exit_status>>

Open ==
    /\ pc = "open"
    /\ file' = Present(<<>>)
    /\ opened' = TRUE
    /\ pc' = "write"
    /\ UNCHANGED <<argv, rows, cols, grid, grid_str, file_before, stdout,
                   raised, exit_status>>

(* Line 34: file.write(grid_str), then the with block closes the file and *)
(* main() returns: the text follows what the file holds since the open,   *)
(* and the process exits with status 0.                                   *)

Write ==
    /\ pc = "write"
    /\ file' = Present(file.data \o grid_str)
    /\ exit_status' = 0
    /\ pc' = "done"
    /\ UNCHANGED <<argv, rows, cols, grid, grid_str, file_before, opened,
                   stdout, raised>>

Next == CheckArgs \/ Unpack \/ Generate \/ Join \/ Open \/ Write

Spec == Init /\ [][Next]_vars

TypeOK ==
    /\ pc \in {"check", "unpack", "generate", "join", "open", "write", "done"}
    /\ exit_status \in {-1, 0, 1}
    /\ raised \in {"", "SystemExit", "ValueError", "TypeError"}
    /\ opened \in BOOLEAN
    /\ file.exists \in BOOLEAN

----------------------------------------------------------------------------
(* Vocabulary of the properties. *)

IsDigit(ch) == \E d \in 1..Len(Digits) : Digits[d] = ch

DigitValue(ch) == (CHOOSE d \in 1..Len(Digits) : Digits[d] = ch) - 1

\* The value of a string of digits.
RECURSIVE DecimalValue(_)
DecimalValue(s) ==
    IF s = <<>> THEN 0
    ELSE 10 * DecimalValue(SubSeq(s, 1, Len(s) - 1)) + DigitValue(s[Len(s)])

\* A str that is the decimal string of an integer >= 1.
IsPositiveDecimal(v) ==
    /\ v.t = "str"
    /\ Len(v.s) >= 1
    /\ \A i \in 1..Len(v.s) : IsDigit(v.s[i])
    /\ DecimalValue(v.s) >= 1

\* Number of arguments after the program name.
Argc == Len(argv) - 1

\* Exactly two arguments, both strs, as a command line gives them.
TwoStrArgs == Argc = 2 /\ argv[2].t = "str" /\ argv[3].t = "str"

ValidCommandLine ==
    TwoStrArgs /\ IsPositiveDecimal(argv[2]) /\ IsPositiveDecimal(argv[3])

InvalidCommandLine ==
    TwoStrArgs /\ ~(IsPositiveDecimal(argv[2]) /\ IsPositiveDecimal(argv[3]))

\* The lines of a text: its pieces between newlines.
RECURSIVE SplitLines(_)
SplitLines(text) ==
    IF \A i \in 1..Len(text) : text[i] # "\n" THEN <<text>>
    ELSE LET k == CHOOSE i \in 1..Len(text) :
                      text[i] = "\n" /\ \A j \in 1..(i - 1) : text[j] # "\n"
         IN <<SubSeq(text, 1, k - 1)>>
                \o SplitLines(SubSeq(text, k + 1, Len(text)))

Done == pc = "done"
Succeeded == Done /\ exit_status = 0
Untouched == ~opened /\ file = file_before

----------------------------------------------------------------------------
(* C1: a run with two decimal strings of integers >= 1 leaves in life.txt *)
(* exactly rows lines of exactly cols characters, each '*' or ' '.        *)
C1_OutputShape ==
    (Done /\ ValidCommandLine) =>
        /\ file.exists
        /\ LET lines == SplitLines(file.data) IN
              /\ Len(lines) = DecimalValue(argv[2].s)
              /\ \A r \in 1..Len(lines) :
                    /\ Len(lines[r]) = DecimalValue(argv[3].s)
                    /\ \A c \in 1..Len(lines[r]) : lines[r][c] \in Cells

(* C2: a run with two decimal strings of positive integers ends with exit *)
(* status 0, without an error, and with life.txt written.                 *)
C2_ExitsZeroWritten ==
    (Done /\ ValidCommandLine) =>
        exit_status = 0 /\ raised = "" /\ opened /\ file.exists

(* C3: a run with more than two arguments ends with exit status 1 and     *)
(* never writes or creates life.txt; it does not stop before its end.     *)
C3_TooManyArgs ==
    (Argc > 2) =>
        /\ Untouched
        /\ pc \in {"check", "unpack", "done"}
        /\ Done \/ ENABLED Next
        /\ Done => exit_status = 1

C3_Witness ==
    Done /\ Argc = 3 /\ exit_status = 1 /\ file = Absent /\ argv[2].t = "int"

(* C4: with three or more arguments the run takes the usage path: it      *)
(* prints the usage message and exits with status 1 before it extracts    *)
(* the two dimensions.                                                    *)
C4_UsagePath ==
    (Done /\ Argc >= 3) =>
        /\ stdout = <<UsageLine>>
        /\ exit_status = 1
        /\ raised = "SystemExit"
        /\ rows = Unbound /\ cols = Unbound

(* C5: a run with two arguments of which at least one is not the decimal  *)
(* string of a positive integer ends in an error with a non-zero exit     *)
(* status and writes nothing to life.txt.                                 *)
C5_InvalidDimension ==
    InvalidCommandLine =>
        /\ Untouched
        /\ pc \in {"check", "unpack", "generate", "done"}
        /\ Done \/ ENABLED Next
        /\ Done => (exit_status # 0 /\ raised # "")

C5_Witness ==
    /\ Done /\ InvalidCommandLine /\ exit_status = 1
    /\ argv[2].s = <<"0">> /\ IsPositiveDecimal(argv[3])
    /\ file_before.exists

(* C6: a run with fewer than two arguments fails at the extraction of the *)
(* two dimensions with a non-zero exit status, and reaches neither the    *)
(* grid generation nor the file write.                                    *)
C6_TooFewArgs ==
    (Argc < 2) =>
        /\ pc \in {"check", "unpack", "done"}
        /\ grid = <<>>
        /\ Untouched
        /\ Done \/ ENABLED Next
        /\ Done => /\ exit_status = 1
                   /\ raised = "ValueError"
                   /\ rows = Unbound /\ cols = Unbound

C6_Witness ==
    Done /\ Argc = 1 /\ raised = "ValueError" /\ argv[2].t = "int"

(* C7, at exit: in a successful run life.txt is the faithful serialization of the *)
(* grid: rows in grid order, one newline between consecutive rows, none   *)
(* after the last (length rows*cols + rows - 1), the character at line r, *)
(* position c is '*' exactly when cell (r, c) is '*' and ' ' exactly when *)
(* it is ' '; and the grid does not change once it is generated.          *)
C7_FaithfulAtExit ==
    Succeeded =>
        LET R == rows.n
            C == cols.n
        IN /\ Len(grid) = R
           /\ \A r \in 1..R : Len(grid[r]) = C
           /\ file.exists
           /\ Len(file.data) = R * C + R - 1
           /\ \A r \in 1..R : \A c \in 1..C :
                 LET ch == file.data[(r - 1) * (C + 1) + c] IN
                    /\ ch = "*" <=> grid[r][c] = "*"
                    /\ ch = " " <=> grid[r][c] = " "
           /\ \A r \in 1..(R - 1) : file.data[r * (C + 1)] = "\n"

C7_GridFrozen ==
    (pc \in {"join", "open", "write", "done"}) => grid' = grid

C10_OpenedLast ==
    /\ opened =>
          /\ pc \in {"write", "done"}
          /\ raised = ""
          /\ rows.t = "int" /\ cols.t = "int"
          /\ Len(grid) = rows.n
    /\ (Done /\ exit_status # 0) => file = file_before

C10_Witness ==
    /\ Done /\ raised = "TypeError"
    /\ file_before.exists /\ Len(file_before.data) = MaxOldLen
    /\ file = file_before

====
